---- MODULE Spec2Model ----
(***************************************************************************)
(* Model of hotwords.py: channel discovery (get_channels), hotlist fetch   *)
(* (get_hotlist_data), keyword extraction                                  *)
(* (extract_keywords_with_google_llm) and the orchestrator (main).         *)
(*                                                                         *)
(* Conventions.  A Python dict / JSON object is a function whose DOMAIN is *)
(* the set of keys that are present.  A JSON value that can have several   *)
(* types is a record [type |-> ..., val |-> ...].  Python None and JSON    *)
(* null are the marker None.  A text handled character by character (the   *)
(* LLM response, a keyword) is a sequence of one-character strings.        *)
(* requests is modelled as of version 2.27 and later, where the error      *)
(* raised by Response.json() is a subclass of RequestException.            *)
(***************************************************************************)
EXTENDS Integers, Sequences, FiniteSets, TLC

VARIABLES
    pc,                    \* position: of main, or of the function under study
    GOOGLE_API_KEY,        \* TRUE iff the credential is configured (line 22)
    args_channel,          \* args.channel: None or a string
    channels_to_process,   \* main's list of channels
    idx,                   \* 1-based position of the for loop of main
    all_channel_keywords,  \* main's result dict: display name -> keywords
    upstream,              \* the HTTP outcome of the latest request
    hotlist_data,          \* what get_hotlist_data returned last
    keywords,              \* what the extractor returned last
    stdout,                \* the sequence of dicts printed
    error_logged,          \* TRUE iff logger.error was called in this run
    discovery_calls,       \* number of calls of get_channels
    llm_calls,             \* number of calls of model.generate_content
    prompt_loads,          \* number of calls of load_prompt
    history,               \* per processed channel: what its inputs were
    llm_outcome,           \* extractor study: what the LLM call does
    prompt_file,           \* extractor study: the state of prompt.json
    discovery              \* how the discovery request of this run ended

vars == <<pc, GOOGLE_API_KEY, args_channel, channels_to_process, idx,
          all_channel_keywords, upstream, hotlist_data, keywords, stdout,
          error_logged, discovery_calls, llm_calls, prompt_loads, history,
          llm_outcome, prompt_file, discovery>>

---------------------------------------------------------------------------
(* Bounds of the model *)

MaxLen == 4          \* longest LLM response text enumerated, in characters
MaxRoutes == 2       \* longest routes array of a discovery response
MaxItems == 1        \* longest data array of a hotlist response
MaxResponding == 2   \* channel requests of one run that get an answer; later ones time out

---------------------------------------------------------------------------
(* Python values *)

None == "<None>"
EmptyDict == [k \in {} |-> None]

\* dict.get(key, default)
Get(d, key, default) == IF key \in DOMAIN d THEN d[key] ELSE default

\* truth value of a string-or-None
Truthy(v) == v # None /\ v # ""

\* all dicts over the keys of fv whose values are taken from fv[key]
Dicts(fv) ==
    UNION { { d \in [S -> UNION { fv[f] : f \in S }] : \A f \in S : d[f] \in fv[f] }
            : S \in SUBSET DOMAIN fv }

SeqsUpTo(S, n) == UNION { [1..k -> S] : k \in 0..n }

---------------------------------------------------------------------------
(* HTTP: requests.get + raise_for_status + response.json *)

HTTP_OK == 200
ErrorStatuses == {500}

InvalidJson == [type |-> "invalid"]
JsonArray(a) == [type |-> "array", val |-> a]
JsonObject(d) == [type |-> "object", val |-> d]

\* bodies that are JSON but not an object: [] and ["data"]
JsonArrays == {JsonArray(<<>>), JsonArray(<<"data">>)}

\* the outcomes of one GET: no answer, an error status (with the body it
\* carries), or a 200 with a body that is not JSON, not an object, or an object
HttpOutcomes(objects, error_objects) ==
    {[net |-> "error"]}
    \cup [net : {"ok"}, status : ErrorStatuses,
          body : {InvalidJson} \cup { JsonObject(d) : d \in error_objects }]
    \cup [net : {"ok"}, status : {HTTP_OK},
          body : {InvalidJson} \cup JsonArrays \cup { JsonObject(d) : d \in objects }]

TimedOut == [net |-> "error"]

\* TRUE iff requests.get, raise_for_status or json() raises a RequestException
RaisesRequestException(resp) ==
    \/ resp.net = "error"
    \/ resp.status >= 400
    \/ resp.body.type = "invalid"

---------------------------------------------------------------------------
(* get_channels, lines 49-91 *)

fallback_channels_short ==
    <<"36kr", "51cto", "acfun", "baidu", "bilibili", "coolapk", "csdn",
      "douban-group", "douban-movie", "douyin", "earthquake", "genshin",
      "hellogithub", "history", "honkai", "hupu", "huxiu", "ifanr",
      "ithome-xijiayi", "ithome", "jianshu", "juejin", "lol", "netease-news",
      "ngabbs", "nodeseek", "qq-news", "sina-news", "sina", "sspai",
      "starrail", "thepaper", "tieba", "toutiao", "v2ex", "weatheralarm",
      "weibo", "weread", "zhihu">>

fallback_channels ==
    <<"36kr", "51cto", "acfun", "baidu", "bilibili", "coolapk", "csdn",
      "douban-group", "douban-movie", "douyin", "earthquake", "genshin",
      "hellogithub", "history", "honkai", "hupu", "huxiu", "ifanr",
      "ithome-xijiayi", "ithome", "jianshu", "juejin", "lol", "netease-news",
      "ngabbs", "nodeseek", "qq-news", "sina-news", "sina", "sspai",
      "starrail", "thepaper", "tieba", "toutiao", "v2ex", "weatheralarm",
      "weibo", "weread", "zhihu-daily", "zhihu">>

RouteNames == {"zhihu", "weibo"}
Routes == Dicts([name |-> RouteNames, path |-> {None, "/p"},
                 message |-> {"", "err"}])
DiscoveryObjects ==
    [code : {HTTP_OK} \cup ErrorStatuses, routes : SeqsUpTo(Routes, MaxRoutes)]
    \cup [code : {HTTP_OK} \cup ErrorStatuses]
    \cup [routes : SeqsUpTo(Routes, MaxRoutes)]
    \cup {EmptyDict}
DiscoveryOutcomes ==
    HttpOutcomes(DiscoveryObjects, [code : ErrorStatuses])

\* line 71: the route is kept
route_available_path_only(route) == Get(route, "path", None) # None

route_available(route) ==
    Get(route, "path", None) # None /\ ~Truthy(Get(route, "message", None))

\* lines 69-72: the loop over data['routes']
RECURSIVE available_channels(_)
available_channels(routes) ==
    IF routes = <<>> THEN <<>>
    ELSE LET rest == available_channels(Tail(routes))
         IN  IF route_available(Head(routes))
             THEN <<Get(Head(routes), "name", None)>> \o rest
             ELSE rest

\* line 64: data.get('code') != 200 or 'routes' not in data
unexpected_structure(data) ==
    \/ "code" \notin DOMAIN data
    \/ data.code # HTTP_OK
    \/ "routes" \notin DOMAIN data

Returned(list, err) == [exc |-> "none", ret |-> list, error |-> err]
Raised(e) == [exc |-> e, ret |-> <<>>, error |-> FALSE]

get_channels_always_fallback(resp) ==
    IF RaisesRequestException(resp) THEN Returned(fallback_channels, TRUE)
    ELSE IF resp.body.type # "object" THEN Raised("AttributeError")
    ELSE IF unexpected_structure(resp.body.val) THEN Returned(fallback_channels, FALSE)
    ELSE Returned(available_channels(resp.body.val.routes), FALSE)

get_channels(resp) ==
    IF RaisesRequestException(resp) THEN Returned(fallback_channels, TRUE)
    ELSE IF resp.body.type # "object" THEN Raised("AttributeError")
    ELSE IF unexpected_structure(resp.body.val) THEN Returned(<<>>, FALSE)
    ELSE Returned(available_channels(resp.body.val.routes), FALSE)

---------------------------------------------------------------------------
(* get_hotlist_data, lines 93-113 *)

\* an item without title, with a title, with a null title, with title and desc
Items == { EmptyDict, [title |-> "A"], [title |-> None], [title |-> "A", desc |-> "B"] }
DataValues ==
    {[type |-> "number"]} \cup [type : {"array"}, val : SeqsUpTo(Items, MaxItems)]
HotlistObjects ==
    { head @@ data : head \in Dicts([title |-> {"T"}, name |-> {"N"}]),
                     data \in {EmptyDict} \cup { [data |-> v] : v \in DataValues } }
OneItem == [type |-> "array", val |-> <<[title |-> "A"]>>]
HotlistOutcomes ==
    HttpOutcomes(HotlistObjects, {[title |-> "T", data |-> OneItem]})

\* what main receives: an exception never leaves get_hotlist_data; the value
\* is the parsed body, whatever its type, or {} after a RequestException
get_hotlist_data_unchecked_status(resp) ==
    IF resp.net = "error" \/ resp.body.type = "invalid"
    THEN [ret |-> JsonObject(EmptyDict), error |-> TRUE]
    ELSE [ret |-> resp.body, error |-> FALSE]

get_hotlist_data(resp) ==
    IF RaisesRequestException(resp)
    THEN [ret |-> JsonObject(EmptyDict), error |-> TRUE]
    ELSE [ret |-> resp.body, error |-> FALSE]

---------------------------------------------------------------------------
(* str.strip and str.split, as used at line 153 *)

Chars == {",", " ", "\n", "a", "b"}
Whitespace == {" ", "\n"}
Texts == SeqsUpTo(Chars, MaxLen)

RECURSIVE lstrip(_)
lstrip(s) == IF s # <<>> /\ Head(s) \in Whitespace THEN lstrip(Tail(s)) ELSE s

RECURSIVE rstrip(_)
rstrip(s) ==
    IF s # <<>> /\ s[Len(s)] \in Whitespace
    THEN rstrip(SubSeq(s, 1, Len(s) - 1))
    ELSE s

strip(s) == rstrip(lstrip(s))

\* s.split(sep): the pieces between the separators, empty pieces included
RECURSIVE split(_, _)
split(s, sep) ==
    IF \A i \in 1..Len(s) : s[i] # sep THEN <<s>>
    ELSE LET i == CHOOSE j \in 1..Len(s) :
                      s[j] = sep /\ \A k \in 1..(j - 1) : s[k] # sep
         IN  <<SubSeq(s, 1, i - 1)>> \o split(SubSeq(s, i + 1, Len(s)), sep)

RECURSIVE strip_each(_)
strip_each(pieces) ==
    IF pieces = <<>> THEN <<>>
    ELSE <<strip(Head(pieces))>> \o strip_each(Tail(pieces))

RECURSIVE strip_nonempty(_)
strip_nonempty(pieces) ==
    IF pieces = <<>> THEN <<>>
    ELSE IF strip(Head(pieces)) # <<>>
         THEN <<strip(Head(pieces))>> \o strip_nonempty(Tail(pieces))
         ELSE strip_nonempty(Tail(pieces))

\* line 153 without its filter
parse_keywords_keep_empty(text) == strip_each(split(strip(text), ","))

\* line 153: [k.strip() for k in response.text.strip().split(',') if k.strip()]
parse_keywords(text) == strip_nonempty(split(strip(text), ","))

---------------------------------------------------------------------------
(* load_prompt (lines 36-47) and extract_keywords_with_google_llm (115-160) *)

\* prompt.json: readable with or without the key, absent, not JSON, or
\* unreadable in a way load_prompt does not catch (e.g. PermissionError)
PromptFiles == {"has_key", "no_key", "missing", "malformed", "unreadable"}

load_prompt(file) ==
    CASE file = "has_key"   -> [exc |-> FALSE, prompt |-> "file", error |-> FALSE]
      [] file = "no_key"    -> [exc |-> FALSE, prompt |-> "default", error |-> FALSE]
      [] file = "missing"   -> [exc |-> FALSE, prompt |-> "default", error |-> TRUE]
      [] file = "malformed" -> [exc |-> FALSE, prompt |-> "default", error |-> TRUE]
      [] OTHER              -> [exc |-> TRUE, prompt |-> "default", error |-> FALSE]

\* what the SDK does: configure/GenerativeModel raises, generate_content
\* raises, the response is falsy or has no text, or it carries a text
LlmOutcomesOver(texts) ==
    [kind : {"sdk_error", "call_error", "no_text"}]
    \cup [kind : {"text"}, text : texts]

Failed(calls, loads) ==
    [ret |-> <<>>, llm_calls |-> calls, prompt_loads |-> loads, error |-> TRUE]

extract_keywords_with_google_llm(key, file, llm) ==
    IF ~key THEN Failed(0, 0)
    ELSE IF llm.kind = "sdk_error" THEN Failed(0, 0)
    ELSE IF load_prompt(file).exc THEN Failed(0, 1)
    ELSE IF llm.kind \in {"call_error", "no_text"} THEN Failed(1, 1)
    ELSE [ret |-> parse_keywords(llm.text), llm_calls |-> 1, prompt_loads |-> 1,
          error |-> load_prompt(file).error]

---------------------------------------------------------------------------
(* main, lines 162-229 *)

ArgChannels == {None, "", "weibo", "nosuch"}
\* what a run of main draws per extraction: a text without keywords, with
\* one and with two; a prompt file that is fine, not JSON, or unreadable
MainTexts == { <<" ", ",">>, <<"a">>, <<"a", ",", " ", "b">> }
MainLlmOutcomes == LlmOutcomesOver(MainTexts)
MainPromptFiles == {"has_key", "malformed", "unreadable"}

NoRequest == [net |-> "none"]
Unset == [type |-> "unset"]
NoLlm == [kind |-> "none"]

Range(f) == { f[x] : x \in DOMAIN f }

\* d[key] = value on a dict
Put(d, key, value) == [k \in DOMAIN d \cup {key} |-> IF k = key THEN value ELSE d[k]]

\* line 196: not hotlist_data or 'data' not in hotlist_data or not hotlist_data['data']
\* "skip", "proceed", or the exception the test itself raises
data_check(hd) ==
    IF hd.type = "array"
    THEN IF hd.val = <<>> \/ "data" \notin Range(hd.val) THEN "skip" ELSE "TypeError"
    ELSE IF DOMAIN hd.val = {} \/ "data" \notin DOMAIN hd.val THEN "skip"
    ELSE IF hd.val.data.type = "array" /\ hd.val.data.val = <<>> THEN "skip"
    ELSE "proceed"

\* line 201
channel_display_name(d, channel) == Get(d, "title", Get(d, "name", channel))

\* lines 206-208: title, or title + ' ' + desc; a None title is kept by
\* line 206 and makes line 208 or line 212 raise
item_text(item) ==
    IF Get(item, "title", "") = None THEN [exc |-> TRUE, text |-> <<>>]
    ELSE IF Truthy(Get(item, "desc", None))
         THEN [exc |-> FALSE, text |-> <<Get(item, "title", ""), " ", item.desc>>]
         ELSE [exc |-> FALSE, text |-> <<Get(item, "title", "")>>]

\* lines 204-212: the texts of the items joined by newlines
RECURSIVE combined_text(_)
combined_text(items) ==
    IF items = <<>> THEN [exc |-> FALSE, text |-> <<>>]
    ELSE LET first == item_text(Head(items))
             rest  == combined_text(Tail(items))
         IN  IF first.exc \/ rest.exc THEN [exc |-> TRUE, text |-> <<>>]
             ELSE IF Tail(items) = <<>> THEN first
             ELSE [exc |-> FALSE, text |-> first.text \o <<"\n">> \o rest.text]

\* lines 204-212 on hotlist_data['data'] of any type
build_text(data) ==
    IF data.type # "array" THEN [exc |-> TRUE, text |-> <<>>]
    ELSE combined_text(data.val)

\* line 171, with the argument checked against the known channels
channel_given_if_known(channel) == channel \in Range(fallback_channels)

\* line 171: if args.channel
channel_given(channel) == Truthy(channel)

\* how the discovery request ended, in the terms of lines 59-77
discovery_end(resp) ==
    IF RaisesRequestException(resp) THEN "request_failure"
    ELSE IF resp.body.type # "object" THEN "not_object"
    ELSE IF unexpected_structure(resp.body.val) THEN "unexpected_structure"
    ELSE "ok"

\* line 226: what json.dumps receives
printed(d) == [k \in DOMAIN d |-> d[k].kw]

Outcome(fetched, items, kws) == [fetch_ok |-> fetched, has_items |-> items, kw |-> kws]

Init ==
    /\ pc = "resolve"
    /\ GOOGLE_API_KEY \in BOOLEAN
    /\ args_channel \in ArgChannels
    /\ channels_to_process = <<>>
    /\ idx = 1
    /\ all_channel_keywords = EmptyDict
    /\ upstream = NoRequest
    /\ hotlist_data = Unset
    /\ keywords = <<>>
    /\ stdout = <<>>
    /\ error_logged = FALSE
    /\ discovery_calls = 0
    /\ llm_calls = 0
    /\ prompt_loads = 0
    /\ history = <<>>
    /\ llm_outcome = NoLlm
    /\ prompt_file = "none"
    /\ discovery = "none"

\* lines 169-174: an explicit channel
ResolveExplicit ==
    /\ pc = "resolve"
    /\ channel_given(args_channel)
    /\ channels_to_process' = <<args_channel>>
    /\ pc' = "fetch"
    /\ UNCHANGED <<GOOGLE_API_KEY, args_channel, idx, all_channel_keywords,
                   upstream, hotlist_data, keywords, stdout, error_logged,
                   discovery_calls, llm_calls, prompt_loads, history,
                   llm_outcome, prompt_file, discovery>>

\* lines 175-186: discovery, the join of line 178 and the check of line 181
ResolveDiscover ==
    /\ pc = "resolve"
    /\ ~channel_given(args_channel)
    /\ \E resp \in DiscoveryOutcomes :
         LET r == get_channels(resp)
         IN  /\ discovery_calls' = discovery_calls + 1
             /\ discovery' = discovery_end(resp)
             /\ IF r.exc # "none" \/ None \in Range(r.ret)
                THEN /\ pc' = "crashed"
                     /\ UNCHANGED channels_to_process
                     /\ error_logged' = r.error
                ELSE /\ channels_to_process' = r.ret
                     /\ pc' = IF r.ret = <<>> THEN "aborted" ELSE "fetch"
                     /\ error_logged' = (r.error \/ r.ret = <<>>)
    /\ UNCHANGED <<GOOGLE_API_KEY, args_channel, idx, all_channel_keywords,
                   upstream, hotlist_data, keywords, stdout, llm_calls,
                   prompt_loads, history, llm_outcome, prompt_file>>

\* lines 189-198: the fetch of the next channel and the test of its data
FetchChannel ==
    /\ pc = "fetch"
    /\ idx <= Len(channels_to_process)
    /\ \E resp \in (IF idx <= MaxResponding THEN HotlistOutcomes ELSE {TimedOut}) :
         LET got == get_hotlist_data(resp)
             chk == data_check(got.ret)
         IN  /\ upstream' = resp
             /\ hotlist_data' = got.ret
             /\ error_logged' = (error_logged \/ got.error)
             /\ pc' = CASE chk = "skip" -> "fetch"
                        [] chk = "proceed" -> "extract"
                        [] OTHER -> "crashed"
             /\ idx' = IF chk = "skip" THEN idx + 1 ELSE idx
             /\ history' = IF chk = "skip"
                           THEN Append(history, Outcome(~got.error, FALSE, <<>>))
                           ELSE history
    /\ UNCHANGED <<GOOGLE_API_KEY, args_channel, channels_to_process,
                   all_channel_keywords, keywords, stdout, discovery_calls,
                   llm_calls, prompt_loads, llm_outcome, prompt_file, discovery>>

\* lines 200-222: display name, text, extraction, storing
ExtractChannel ==
    /\ pc = "extract"
    /\ LET d    == hotlist_data.val
           name == channel_display_name(d, channels_to_process[idx])
       IN  IF build_text(d.data).exc
           THEN /\ pc' = "crashed"
                /\ UNCHANGED <<idx, all_channel_keywords, keywords, error_logged,
                               llm_calls, prompt_loads, history>>
           ELSE \E llm \in MainLlmOutcomes, file \in MainPromptFiles :
                  LET e == extract_keywords_with_google_llm(GOOGLE_API_KEY, file, llm)
                  IN  /\ keywords' = e.ret
                      /\ llm_calls' = llm_calls + e.llm_calls
                      /\ prompt_loads' = prompt_loads + e.prompt_loads
                      /\ error_logged' = (error_logged \/ e.error)
                      /\ all_channel_keywords' =
                           IF e.ret # <<>>
                           THEN Put(all_channel_keywords, name, [kw |-> e.ret, ch |-> idx])
                           ELSE all_channel_keywords
                      /\ history' = Append(history, Outcome(TRUE, TRUE, e.ret))
                      /\ idx' = idx + 1
                      /\ pc' = "fetch"
    /\ UNCHANGED <<GOOGLE_API_KEY, args_channel, channels_to_process, upstream,
                   hotlist_data, stdout, discovery_calls, llm_outcome, prompt_file, discovery>>

\* lines 224-229
Emit ==
    /\ pc = "fetch"
    /\ idx > Len(channels_to_process)
    /\ IF DOMAIN all_channel_keywords # {}
       THEN /\ stdout' = Append(stdout, printed(all_channel_keywords))
            /\ UNCHANGED error_logged
       ELSE /\ error_logged' = TRUE
            /\ UNCHANGED stdout
    /\ pc' = "done"
    /\ UNCHANGED <<GOOGLE_API_KEY, args_channel, channels_to_process, idx,
                   all_channel_keywords, upstream, hotlist_data, keywords,
                   discovery_calls, llm_calls, prompt_loads, history,
                   llm_outcome, prompt_file, discovery>>

Next == ResolveExplicit \/ ResolveDiscover \/ FetchChannel \/ ExtractChannel \/ Emit

Spec == Init /\ [][Next]_vars

---------------------------------------------------------------------------
(* get_channels on its own: every discovery outcome, one call *)

Idle ==
    /\ args_channel = None
    /\ idx = 1
    /\ all_channel_keywords = EmptyDict
    /\ hotlist_data = Unset
    /\ stdout = <<>>
    /\ error_logged = FALSE
    /\ discovery_calls = 0
    /\ llm_calls = 0
    /\ prompt_loads = 0
    /\ history = <<>>
    /\ discovery = "none"

InitChannels ==
    /\ Idle
    /\ pc = "get_channels"
    /\ upstream \in DiscoveryOutcomes
    /\ GOOGLE_API_KEY = FALSE
    /\ channels_to_process = <<>>
    /\ keywords = <<>>
    /\ llm_outcome = NoLlm
    /\ prompt_file = "none"

CallGetChannels ==
    /\ pc = "get_channels"
    /\ LET r == get_channels(upstream)
       IN  /\ pc' = IF r.exc = "none" THEN "returned" ELSE "raised"
           /\ channels_to_process' = r.ret
           /\ error_logged' = r.error
    /\ discovery_calls' = discovery_calls + 1
    /\ discovery' = discovery_end(upstream)
    /\ UNCHANGED <<GOOGLE_API_KEY, args_channel, idx, all_channel_keywords,
                   upstream, hotlist_data, keywords, stdout, llm_calls,
                   prompt_loads, history, llm_outcome, prompt_file>>

NextChannels == CallGetChannels

SpecChannels == InitChannels /\ [][NextChannels]_vars

---------------------------------------------------------------------------
(* extract_keywords_with_google_llm on its own: every credential state,    *)
(* prompt file and LLM outcome, one call                                   *)

\* scenario 3 of the specification, over the model's alphabet: "a, b , ab,"
ScenarioText == <<"a", ",", " ", "b", " ", ",", " ", "a", "b", ",">>

InitExtract ==
    /\ Idle
    /\ pc = "extract_keywords"
    /\ upstream = NoRequest
    /\ GOOGLE_API_KEY \in BOOLEAN
    /\ channels_to_process = <<>>
    /\ keywords = <<>>
    /\ llm_outcome \in LlmOutcomesOver(Texts \cup {ScenarioText})
    /\ prompt_file \in PromptFiles

CallExtract ==
    /\ pc = "extract_keywords"
    /\ LET e == extract_keywords_with_google_llm(GOOGLE_API_KEY, prompt_file, llm_outcome)
       IN  /\ keywords' = e.ret
           /\ llm_calls' = llm_calls + e.llm_calls
           /\ prompt_loads' = prompt_loads + e.prompt_loads
           /\ error_logged' = e.error
    /\ pc' = "returned"
    /\ UNCHANGED <<GOOGLE_API_KEY, args_channel, channels_to_process, idx,
                   all_channel_keywords, upstream, hotlist_data, stdout,
                   discovery_calls, history, llm_outcome, prompt_file, discovery>>

NextExtract == CallExtract

SpecExtract == InitExtract /\ [][NextExtract]_vars

---------------------------------------------------------------------------
(* Properties *)

Terminated == pc \in {"done", "aborted", "crashed"}

\* channel number i of the run has an entry of its own in the result dict
Present(i) == \E k \in DOMAIN all_channel_keywords : all_channel_keywords[k].ch = i

\* the fetch of channel number i succeeded, gave at least one item, and the
\* extractor returned a non-empty list for it
Succeeded(i) == history[i].fetch_ok /\ history[i].has_items /\ history[i].kw # <<>>

\* C1: after every loop iteration and at the end of the run, a channel is in
\* the result dict iff its fetch succeeded, gave at least one item and the
\* extractor returned a non-empty list - two channels with the same display
\* name included.
C1_PresentIffSucceeded ==
    \A i \in 1..Len(history) : Present(i) <=> Succeeded(i)

\* the failures of discovery that C2 lists
ListedDiscoveryFailure ==
    discovery \in {"request_failure", "unexpected_structure"}

\* C2 as stated: after every listed discovery failure the channel list is the
\* fallback list, nothing is raised, the list is not empty and the run does
\* not abort.
C2_FallbackOnEveryFailure ==
    (pc # "resolve" /\ ListedDiscoveryFailure)
        => /\ channels_to_process = fallback_channels
           /\ channels_to_process # <<>>
           /\ pc # "aborted"

\* C2 amended: after a request failure (no answer, error status, body that is
\* not JSON) the channel list is the non-empty fallback list and the run does
\* not abort; after an object with code != 200 or without routes the list is
\* empty and the run aborts.
C2_FallbackOnRequestFailure ==
    /\ (pc # "resolve" /\ discovery = "request_failure")
           => /\ channels_to_process = fallback_channels
              /\ channels_to_process # <<>>
              /\ pc # "aborted"
    /\ (pc # "resolve" /\ discovery = "unexpected_structure")
           => /\ channels_to_process = <<>>
              /\ pc = "aborted"

C2_Witness ==
    /\ pc = "done"
    /\ discovery = "request_failure"
    /\ channels_to_process = fallback_channels
    /\ Len(history) = Len(fallback_channels)

NoDuplicates(list) ==
    \A i, j \in 1..Len(list) : i # j => list[i] # list[j]

\* a discovery request that raised a RequestException, stated on the outcome
RequestFailed(resp) ==
    \/ resp.net = "error"
    \/ resp.net = "ok" /\ resp.status # HTTP_OK
    \/ resp.net = "ok" /\ resp.body = InvalidJson

\* C3 as stated: after a failed discovery request get_channels returns the
\* fallback list, which has exactly 39 identifiers and no duplicates.
C3_Fallback39 ==
    (pc = "returned" /\ RequestFailed(upstream))
        => /\ channels_to_process = fallback_channels
           /\ Len(channels_to_process) = 39
           /\ NoDuplicates(channels_to_process)

\* C3 amended: after a failed discovery request get_channels returns the
\* fallback list, in its order from "36kr" to "zhihu", which has exactly 40
\* identifiers and no duplicates.
C3_Fallback40 ==
    (pc \in {"returned", "raised"} /\ RequestFailed(upstream))
        => /\ pc = "returned"
           /\ channels_to_process = fallback_channels
           /\ Len(channels_to_process) = 40
           /\ channels_to_process[1] = "36kr"
           /\ channels_to_process[39] = "zhihu-daily"
           /\ channels_to_process[40] = "zhihu"
           /\ NoDuplicates(channels_to_process)

C3_Witness ==
    /\ pc = "returned"
    /\ upstream = TimedOut
    /\ Len(channels_to_process) = 40

\* a route is available: its path is there and not null, its message is
\* absent or empty
Available(route) ==
    /\ "path" \in DOMAIN route
    /\ route.path # None
    /\ ("message" \in DOMAIN route => route.message = "")

NameOf(route) == IF "name" \in DOMAIN route THEN route.name ELSE None

\* the positions of the available routes, and the rank of one among them
AvailableAt(routes) == { i \in 1..Len(routes) : Available(routes[i]) }
RankIn(S, i) == Cardinality({ j \in S : j <= i })

ValidDiscovery(resp) ==
    /\ resp.net = "ok"
    /\ resp.status = HTTP_OK
    /\ resp.body.type = "object"
    /\ DOMAIN resp.body.val = {"code", "routes"}
    /\ resp.body.val.code = HTTP_OK

\* C4: for a response with code 200 and routes, get_channels returns the
\* names of the available routes, each once, in the order of the routes, and
\* nothing of an unavailable route.
C4_AvailableRoutesInOrder ==
    (pc \in {"returned", "raised"} /\ ValidDiscovery(upstream))
        => LET routes == upstream.body.val.routes
               keep   == AvailableAt(routes)
           IN  /\ pc = "returned"
               /\ Len(channels_to_process) = Cardinality(keep)
               /\ \A i \in keep :
                      channels_to_process[RankIn(keep, i)] = NameOf(routes[i])

C4_Witness ==
    /\ pc = "returned"
    /\ ValidDiscovery(upstream)
    /\ Len(upstream.body.val.routes) = 2
    /\ ~Available(upstream.body.val.routes[1])
    /\ channels_to_process = <<"zhihu">>

\* a hotlist request that failed: no answer, error status, body not JSON
FetchFailed(resp) ==
    \/ resp.net = "error"
    \/ resp.net = "ok" /\ resp.status # HTTP_OK
    \/ resp.net = "ok" /\ resp.body = InvalidJson

\* C5: when the fetch of a channel fails (the step of the loop that takes
\* the next channel), get_hotlist_data returns {}, the same step goes on to the next channel without a call of the extractor and
\* without a change of the result dict, and the channel is never in the dict.
C5_FailedFetchSkipped ==
    /\ [][ (pc = "fetch" /\ idx <= Len(channels_to_process) /\ FetchFailed(upstream'))
             => /\ hotlist_data' = JsonObject(EmptyDict)
                /\ llm_calls' = llm_calls
                /\ prompt_loads' = prompt_loads
                /\ keywords' = keywords
                /\ all_channel_keywords' = all_channel_keywords
                /\ idx' = idx + 1
                /\ pc' = "fetch" ]_vars
    /\ [](\A i \in 1..Len(history) : ~history[i].fetch_ok => ~Present(i))

C5_Witness ==
    /\ pc = "done"
    /\ Len(history) = 2
    /\ ~history[1].fetch_ok
    /\ Succeeded(2)
    /\ Present(2)

\* the characters of s at the positions in S, in order
Pick(s, S) ==
    [n \in 1..Cardinality(S) |-> s[CHOOSE i \in S : RankIn(S, i) = n]]

WithoutWhitespace(s) == Pick(s, { i \in 1..Len(s) : s[i] \notin Whitespace })

\* s without its leading, trailing and repeated commas
CommasNormalised(s) ==
    Pick(s, { i \in 1..Len(s) :
                \/ s[i] # ","
                \/ /\ i > 1
                   /\ s[i - 1] # ","
                   /\ \E j \in (i + 1)..Len(s) : s[j] # "," })

RECURSIVE JoinedByCommas(_)
JoinedByCommas(list) ==
    IF list = <<>> THEN <<>>
    ELSE IF Len(list) = 1 THEN WithoutWhitespace(list[1])
    ELSE WithoutWhitespace(list[1]) \o <<",">> \o JoinedByCommas(Tail(list))

IsPieceOf(k, text) ==
    \E i \in 1..Len(text) : i + Len(k) - 1 <= Len(text)
                            /\ SubSeq(text, i, i + Len(k) - 1) = k

\* C6: whatever the credential, the prompt file and the LLM do, the extractor
\* returns a list; when the LLM answered with a text, every keyword is a
\* non-empty piece of that text without commas and without leading or
\* trailing whitespace, and the keywords are the non-blank pieces between the
\* commas in their order, duplicates kept ("a, b , ab," gives a, b, ab).
C6_KeywordsAreTrimmedPieces ==
    pc = "returned" =>
        /\ DOMAIN keywords = 1..Len(keywords)
        /\ (llm_calls = 1 /\ llm_outcome.kind = "text") =>
              /\ \A n \in 1..Len(keywords) :
                    /\ keywords[n] # <<>>
                    /\ keywords[n][1] \notin Whitespace
                    /\ keywords[n][Len(keywords[n])] \notin Whitespace
                    /\ \A i \in 1..Len(keywords[n]) : keywords[n][i] # ","
                    /\ IsPieceOf(keywords[n], llm_outcome.text)
              /\ JoinedByCommas(keywords)
                    = CommasNormalised(WithoutWhitespace(llm_outcome.text))
              /\ llm_outcome.text = ScenarioText
                    => keywords = << <<"a">>, <<"b">>, <<"a", "b">> >>

C6_Witness ==
    /\ pc = "returned"
    /\ llm_outcome = [kind |-> "text", text |-> ScenarioText]
    /\ keywords = << <<"a">>, <<"b">>, <<"a", "b">> >>

\* C7: without the credential no call of the extractor loads the prompt or
\* calls the LLM, each returns the empty list, and every run ends with an
\* empty result dict, an error logged and nothing printed.
C7_NoCredentialNoOutput ==
    ~GOOGLE_API_KEY =>
        /\ llm_calls = 0
        /\ prompt_loads = 0
        /\ keywords = <<>>
        /\ Terminated => /\ DOMAIN all_channel_keywords = {}
                         /\ stdout = <<>>
                         /\ error_logged

\* C8: main never ends in an uncaught exception.
C8_NoUncaughtException == pc # "crashed"

\* C9: JSON is printed at most once and only after every channel has been
\* processed; a run ends with JSON printed iff its result dict is not empty;
\* a run whose channel list is empty aborts without a fetch, an LLM call or
\* output.
C9_PrintedOnceIffNonEmpty ==
    /\ Len(stdout) <= 1
    /\ stdout # <<>> => Len(history) = Len(channels_to_process)
    /\ Terminated => (stdout # <<>> <=> DOMAIN all_channel_keywords # {})
    /\ pc \in {"fetch", "extract", "done"} => channels_to_process # <<>>
    /\ pc = "aborted" => /\ channels_to_process = <<>>
                         /\ upstream = NoRequest
                         /\ llm_calls = 0
                         /\ stdout = <<>>

\* what C10 says of a run whose channel argument satisfies given
ExplicitChannelOnly(given) ==
    (given /\ pc # "resolve") =>
        /\ channels_to_process = <<args_channel>>
        /\ discovery_calls = 0
        /\ (Terminated /\ Len(history) = 1 /\ Succeeded(1))
              => /\ pc = "done"
                 /\ Len(stdout) = 1
                 /\ Cardinality(DOMAIN stdout[1]) = 1

\* C10 as stated: with a channel argument of any string value the channel
\* list is that one value, discovery is not called, and a successful fetch
\* and extraction give JSON with exactly one key.
C10_AnyStringIsExplicit == ExplicitChannelOnly(args_channel # None)

\* C10 amended: with a channel argument of any non-empty string value, known
\* to discovery or not, the channel list is that one value, discovery is not
\* called, and a successful fetch and extraction give JSON with exactly one
\* key.
C10_NonEmptyStringIsExplicit ==
    ExplicitChannelOnly(args_channel # None /\ args_channel # "")

C10_Witness ==
    /\ pc = "done"
    /\ args_channel = "nosuch"
    /\ discovery_calls = 0
    /\ Len(stdout) = 1
    /\ DOMAIN stdout[1] = {"nosuch"}

====
